---- MODULE Spec2Model ----
(***************************************************************************)
(* The tool-calling chatbot of chatbot.py and tools.py: the Session Driver *)
(* (chat_with_qwen), the agentic loop (process_query) and the Tool         *)
(* Executor (execute_tool) with the tool implementations it dispatches to. *)
(* The two tools that call a provider over the network, get_stock_price    *)
(* and search_stock_symbol, have specifications of their own (PriceSpec,   *)
(* SearchSpec) over what the provider may answer.                          *)
(***************************************************************************)
EXTENDS Naturals, Sequences, FiniteSets, TLC

VARIABLES
    pc,                 \* position of the one thread of control
    SYSTEM_PROMPT,      \* chatbot.py global, set once at startup
    messages,           \* process_query: the history of the current query
    response_data,      \* process_query: the last parsed chat response
    process_query_flag, \* process_query: loop flag
    iteration,          \* process_query: loop counter
    tool_calls,         \* process_query: the batch of the current round
    idx,                \* process_query: position of the for loop in the batch
    reports,            \* what the logger has reported for the current query
    nreq,               \* chat requests posted for the current query
    nexec,              \* execute_tool invocations of the current query
    sent,               \* the history carried by the last chat request
    queryState,         \* "none", or how far the last call of process_query got
    lastOutcome,        \* what the last chat request of the query came back with
    plan,               \* environment: the batch the model asks for in this query
    eof,                \* environment: standard input is exhausted
    exitCause,          \* why the session ended ("" while it runs)
    line,               \* chat_with_qwen: what input() came back with, until the
                        \* body of the loop has dealt with it
    ALPHAVANTAGE_API_KEY, \* tools.py global, read from the environment at import
    tool_pc,            \* position of a call of a network tool ("idle": none)
    tool_input,         \* the argument of the call and what the provider holds
    tool_result,        \* what the call came back with
    queried             \* the providers the call has sent a request to

chatvars == << pc, SYSTEM_PROMPT, messages, response_data, process_query_flag,
               iteration, tool_calls, idx, reports, nreq, nexec, sent, queryState,
               lastOutcome, plan, eof, exitCause, line >>

toolvars == << ALPHAVANTAGE_API_KEY, tool_pc, tool_input, tool_result, queried >>

vars == << chatvars, toolvars >>

-----------------------------------------------------------------------------
(* Bounds of the model *)

\* longest batch of tool calls in one assistant reply
MaxBatch == 2

\* longest list of items in the answer of a symbol-search provider
MaxItems == 6

-----------------------------------------------------------------------------
(* Text helpers *)

RECURSIVE Join(_)
Join(s) == IF s = << >> THEN "" ELSE Head(s) \o Join(Tail(s))

-----------------------------------------------------------------------------
(* tools.py: tool implementations *)

\* Outcome of a Python call: a returned text, or a raised exception with its
\* class ("TypeError", "Exception" for every other subclass of Exception,
\* "SystemExit" for the BaseException that is no Exception) and description.
Returned(text) == [kind |-> "return", text |-> text, exc |-> ""]
Raised(class, text) == [kind |-> "raise", text |-> text, exc |-> class]

get_current_weather(location) ==
    Returned("The weather in " \o location \o " is sunny and 72 F")

\* Python's eval on the expressions the model is given: a value, an
\* exception of class Exception, or SystemExit (exit() is a builtin that
\* eval reaches like any other name).
eval(expression) ==
    CASE expression = "2 + 2"  -> Returned("4")
      [] expression = "1/0"    -> Raised("Exception", "division by zero")
      [] expression = "exit()" -> Raised("SystemExit", "")
      [] OTHER                 -> Raised("Exception", "invalid syntax")

\* "except Exception" around eval: SystemExit is not caught.
calculate(expression) ==
    LET r == eval(expression) IN
    IF r.kind = "return" THEN Returned("The result is: " \o r.text)
    ELSE IF r.exc = "SystemExit" THEN r
    ELSE Returned("Error calculating: " \o r.text)

TOOL_REGISTRY ==
    { "get_current_weather", "calculate", "get_stock_price", "search_stock_symbol" }

\* The one required parameter of each registered function.
Parameter(tool_name) ==
    CASE tool_name = "get_current_weather" -> "location"
      [] tool_name = "calculate"           -> "expression"
      [] tool_name = "get_stock_price"     -> "symbol"
      [] tool_name = "search_stock_symbol" -> "company_name"

\* tool_args is a JSON object: a sequence of <<key, value>> pairs.
Keys(tool_args) == { tool_args[i][1] : i \in 1..Len(tool_args) }

Value(tool_args, key) ==
    LET i == CHOOSE j \in 1..Len(tool_args) : tool_args[j][1] = key
    IN  tool_args[i][2]

\* tool_function(**tool_args): Python binds the keywords to the parameters
\* and raises TypeError when they do not fit; otherwise the body runs. The
\* bodies covered are those of the two tools that make no network call, the
\* ones the records below ask for.
CallTool(tool_name, tool_args) ==
    LET p == Parameter(tool_name) IN
    IF p \notin Keys(tool_args)
    THEN Raised("TypeError",
                tool_name \o "() missing 1 required positional argument: '" \o p \o "'")
    ELSE IF Keys(tool_args) # {p}
    THEN Raised("TypeError",
                tool_name \o "() got an unexpected keyword argument '"
                \o (CHOOSE k \in Keys(tool_args) : k # p) \o "'")
    ELSE CASE tool_name = "get_current_weather" -> get_current_weather(Value(tool_args, p))
           [] tool_name = "calculate"           -> calculate(Value(tool_args, p))

-----------------------------------------------------------------------------
(* tools.py: execute_tool *)

\* A result is a text or the error record {"error": text}; quoted says that
\* the text holds a single quote (it decides how Python prints the record).
TextResult(text) == [isError |-> FALSE, text |-> text, quoted |-> FALSE]
ErrorResult(text, quoted) == [isError |-> TRUE, text |-> text, quoted |-> quoted]

\* What the caller of execute_tool sees: a returned result, or an exception.
ToolReturn(result, log) == [kind |-> "return", result |-> result, exc |-> "", log |-> log]
ToolRaise(class, log) == [kind |-> "raise", result |-> TextResult(""), exc |-> class, log |-> log]

\* The registry lookup: a name that cannot be hashed (a JSON list or object
\* in the name field) makes the membership test itself raise TypeError.
Lookup(tool_name) ==
    IF ~tool_name.hashable THEN "TypeError"
    ELSE IF tool_name.text \notin TOOL_REGISTRY THEN "unknown"
    ELSE "found"

\* The handlers around the call of the tool function.
Handle(tool_name, r) ==
    CASE r.kind = "return" -> ToolReturn(TextResult(r.text), {})
      [] r.exc = "TypeError" ->
            ToolReturn(ErrorResult("Invalid arguments for " \o tool_name \o ": " \o r.text,
                                   TRUE),
                       {"invalid_arguments"})
      [] r.exc = "Exception" ->
            ToolReturn(ErrorResult("Error executing " \o tool_name \o ": " \o r.text,
                                   FALSE),
                       {"tool_execution_error"})
      [] OTHER -> ToolRaise(r.exc, {})

execute_tool(tool_name, tool_args) ==
    LET found == Lookup(tool_name) IN
    CASE found = "TypeError" -> ToolRaise("TypeError", {})
      [] found = "unknown" ->
            ToolReturn(ErrorResult("Unknown tool: " \o tool_name.text, FALSE),
                       {"unknown_tool"})
      [] OTHER -> Handle(tool_name.text, CallTool(tool_name.text, tool_args))

\* Python's str(): a text is itself, a dict is printed with its key and the
\* repr of its value (double quotes when the value holds a single quote).
str(result) ==
    IF ~result.isError THEN result.text
    ELSE IF result.quoted THEN "{'error': \"" \o result.text \o "\"}"
    ELSE "{'error': '" \o result.text \o "'}"

-----------------------------------------------------------------------------
(* tools.py: get_stock_price *)

\* A Python value of the quote data: None, or a number (prices are counted
\* in hundredths, so that 12345 is 123.45).
None == [none |-> TRUE, value |-> 0]
Num(v) == [none |-> FALSE, value |-> v]

\* What ticker.info holds, or that reading it raises.
Info(raises, currentPrice, regularMarketPrice, previousClose) ==
    [raises |-> raises, currentPrice |-> currentPrice,
     regularMarketPrice |-> regularMarketPrice, previousClose |-> previousClose]

\* Python's truth value: None and 0 are false.
Truthy(x) == ~x.none /\ x.value # 0

\* a or b: a when it is true, b otherwise.
Or(a, b) == IF Truthy(a) THEN a ELSE b

Digit(d) ==
    CASE d = 0 -> "0" [] d = 1 -> "1" [] d = 2 -> "2" [] d = 3 -> "3" [] d = 4 -> "4"
      [] d = 5 -> "5" [] d = 6 -> "6" [] d = 7 -> "7" [] d = 8 -> "8" [] d = 9 -> "9"

RECURSIVE Digits(_)
Digits(n) == IF n < 10 THEN Digit(n) ELSE Digits(n \div 10) \o Digit(n % 10)

\* format(x, ".2f") of a number of hundredths
Format2f(hundredths) ==
    Digits(hundredths \div 100) \o "." \o Digit((hundredths \div 10) % 10)
    \o Digit(hundredths % 10)

NotFoundText(symbol) ==
    "Could not find stock price for symbol '" \o symbol
    \o "'. Please check if the ticker symbol is correct."

\* The response for quote data without name, currency, day range and
\* market cap: the symbol stands for the name, USD for the currency.
PriceText(symbol, price) ==
    symbol \o " (" \o symbol \o ")\n" \o "Current Price: USD " \o Format2f(price) \o "\n"

get_stock_price(symbol, info) ==
    IF info.raises
    THEN Returned("Error fetching stock data for '" \o symbol \o "': no data")
    ELSE LET current_price ==
                 Or(Or(info.currentPrice, info.regularMarketPrice), info.previousClose)
         IN  IF current_price = None THEN Returned(NotFoundText(symbol))
             ELSE Returned(PriceText(symbol, current_price.value))

\* The quote data a symbol may come with: each price field absent or a
\* number, 0 among them.
Prices == { 0, 50, 12345 }

FieldValues == { None } \cup { Num(v) : v \in Prices }

Infos ==
    { Info(TRUE, None, None, None) }
    \cup { Info(FALSE, c, r, p) : c \in FieldValues, r \in FieldValues, p \in FieldValues }

-----------------------------------------------------------------------------
(* tools.py: search_stock_symbol *)

\* What requests.get comes back with: an exception of requests (no
\* connection, timeout), or a response with its status and its body: text
\* that is not JSON, JSON that is no object, or an object whose list (quotes,
\* bestMatches) holds items, each with its symbol ("" when it has none).
Response(kind, status, json, items) ==
    [kind |-> kind, status |-> status, json |-> json, items |-> items]

Item(symbol) == [symbol |-> symbol]

RECURSIVE JoinLines(_)
JoinLines(lines) ==
    IF lines = << >> THEN ""
    ELSE IF Len(lines) = 1 THEN lines[1]
    ELSE lines[1] \o "\n" \o JoinLines(Tail(lines))

format_lines(company_name, lines, source_label) ==
    "Top matches for '" \o company_name \o "' (" \o source_label \o "):\n"
    \o JoinLines(lines)

\* items[:5]
FirstFive(items) == SubSeq(items, 1, IF Len(items) < 5 THEN Len(items) ELSE 5)

\* The line of one quote of the primary provider (in the source the dash is
\* an em dash); an item without names shows its symbol and N/A.
QuoteLine(quote) ==
    quote.symbol \o " - " \o quote.symbol \o " (Symbol: " \o quote.symbol
    \o ", Exchange: N/A, Type: N/A)"

MatchLine(m) ==
    m.symbol \o " - " \o m.symbol \o " (Symbol: " \o m.symbol
    \o ", Region: N/A, Currency: N/A)"

\* The for loops over the items: one without symbol is passed over.
RECURSIVE QuoteLines(_)
QuoteLines(quotes) ==
    IF quotes = << >> THEN << >>
    ELSE (IF Head(quotes).symbol = "" THEN << >> ELSE << QuoteLine(Head(quotes)) >>)
         \o QuoteLines(Tail(quotes))

RECURSIVE MatchLines(_)
MatchLines(matches) ==
    IF matches = << >> THEN << >>
    ELSE (IF Head(matches).symbol = "" THEN << >> ELSE << MatchLine(Head(matches)) >>)
         \o MatchLines(Tail(matches))

\* What the code between requests.get and the use of the parsed body raises,
\* "" when it raises nothing: the exception of requests.get itself,
\* resp.json() on text that is not JSON, .get on JSON that is no object.
BodyError(r) ==
    CASE r.kind = "exception" -> "connection refused"
      [] r.json = "invalid"   -> "Expecting value"
      [] r.json = "nondict"   -> "'list' object has no attribute 'get'"
      [] OTHER -> ""

\* The primary stage: the text it returns, or "" when it falls through to
\* the fallback (HTTPError logged, exception logged, or no line collected).
PrimaryStage(company_name, r) ==
    IF r.kind = "exception" THEN ""
    ELSE IF r.status >= 400 THEN ""
    ELSE IF BodyError(r) # "" THEN ""
    ELSE LET lines == QuoteLines(FirstFive(r.items)) IN
         IF lines # << >> THEN format_lines(company_name, lines, "Yahoo Finance")
         ELSE ""

\* Variant of KeyConfigured: the fallback is tried whatever the key.
KeyConfigured_Always(key) == TRUE

\* not ALPHAVANTAGE_API_KEY: unset and empty are the same.
KeyConfigured(key) == key # ""

NoKeyText ==
    "Yahoo Finance search failed or was rate-limited, and no Alpha Vantage API key is "
    \o "configured (ALPHAVANTAGE_API_KEY). Please set that environment variable or provide "
    \o "the stock ticker symbol directly."

\* The body of the fallback's try block.
SecondaryBody(company_name, r) ==
    IF r.kind = "exception" THEN Raised("Exception", BodyError(r))
    ELSE IF r.status >= 400 THEN Raised("Exception", "HTTPError")
    ELSE IF BodyError(r) # "" THEN Raised("Exception", BodyError(r))
    ELSE IF r.items = << >>
    THEN Returned("Could not find a ticker symbol for '" \o company_name
                  \o "' using Yahoo Finance or Alpha Vantage. Please try a different or "
                  \o "more specific company name.")
    ELSE LET lines == MatchLines(FirstFive(r.items)) IN
         IF lines = << >>
         THEN Returned("Alpha Vantage returned results for '" \o company_name
                       \o "', but none had a usable symbol. Please refine your query or "
                       \o "provide the ticker directly.")
         ELSE Returned(format_lines(company_name, lines, "Alpha Vantage"))

\* The fallback stage with its "except Exception".
SecondaryStage(company_name, r) ==
    LET b == SecondaryBody(company_name, r) IN
    IF b.kind = "raise" /\ b.exc = "Exception"
    THEN Returned("Error searching for ticker symbol for '" \o company_name
                  \o "' using both Yahoo Finance and Alpha Vantage: " \o b.text)
    ELSE b

\* What a provider may answer: lists of up to MaxItems items, with or
\* without symbol.
ItemLists == UNION { [1..n -> { Item(""), Item("NVDA") }] : n \in 0..MaxItems }

ProviderOutcomes ==
    { Response("exception", 0, "invalid", << >>),
      Response("response", 429, "invalid", << >>),
      Response("response", 500, "invalid", << >>),
      Response("response", 200, "invalid", << >>),
      Response("response", 200, "nondict", << >>) }
    \cup { Response("response", 200, "dict", items) : items \in ItemLists }

-----------------------------------------------------------------------------
(* What the chat endpoint and the user may send *)

Name(text) == [hashable |-> TRUE, text |-> text]
UnhashableName == [hashable |-> FALSE, text |-> ""]

\* One tool-call record of a reply: tool_call['function'] with its optional
\* 'name' and 'arguments' fields.
ToolCallRecord(hasName, name, hasArgs, arguments) ==
    [hasName |-> hasName, name |-> name, hasArgs |-> hasArgs, arguments |-> arguments]

WeatherCall == ToolCallRecord(TRUE, Name("get_current_weather"), TRUE, << <<"location", "Paris">> >>)
SumCall     == ToolCallRecord(TRUE, Name("calculate"), TRUE, << <<"expression", "2 + 2">> >>)
DivideCall  == ToolCallRecord(TRUE, Name("calculate"), TRUE, << <<"expression", "1/0">> >>)
ExitCall    == ToolCallRecord(TRUE, Name("calculate"), TRUE, << <<"expression", "exit()">> >>)
UnknownCall == ToolCallRecord(TRUE, Name("unknown_tool_xyz"), TRUE, << >>)
NoArgCall   == ToolCallRecord(TRUE, Name("get_current_weather"), TRUE, << >>)
NamelessCall == ToolCallRecord(FALSE, Name(""), TRUE, << <<"location", "Paris">> >>)
ArglessCall == ToolCallRecord(TRUE, Name("calculate"), FALSE, << >>)
ListNameCall == ToolCallRecord(TRUE, UnhashableName, TRUE, << >>)

ToolCallRecords ==
    { WeatherCall, SumCall, DivideCall, ExitCall, UnknownCall, NoArgCall,
      NamelessCall, ArglessCall, ListNameCall }

Batches == UNION { [1..n -> ToolCallRecords] : n \in 1..MaxBatch }

\* Messages of the history: role, content and (assistant only) tool_calls.
Message(role, content, calls) == [role |-> role, content |-> content, tool_calls |-> calls]

\* The body of a response: text that is not JSON, JSON that is no object,
\* an object without 'message', or an object with a message.
Body(parse, hasMessage, message) ==
    [parse |-> parse, hasMessage |-> hasMessage, message |-> message]

NoMessage == Message("", "", << >>)

Bodies(batch) ==
    { Body("invalid", FALSE, NoMessage),
      Body("nondict", FALSE, NoMessage),
      Body("dict", FALSE, NoMessage),
      Body("dict", TRUE, Message("assistant", "", << >>)),
      Body("dict", TRUE, Message("assistant", "Done.", << >>)),
      Body("dict", TRUE, Message("assistant", "", batch)) }

\* What requests.post can come back with. Within one query the model asks
\* for one batch (plan): a reply holds that batch or no tool call at all, so
\* that all 10 passes of the loop stay within reach for every batch.
Outcome(kind, status, body) == [kind |-> kind, status |-> status, body |-> body]

Outcomes(batch) ==
    { Outcome("timeout", 0, Body("invalid", FALSE, NoMessage)),
      Outcome("connection", 0, Body("invalid", FALSE, NoMessage)),
      Outcome("response", 404, Body("invalid", FALSE, NoMessage)),
      Outcome("response", 500, Body("invalid", FALSE, NoMessage)) }
    \cup { Outcome("response", 200, b) : b \in Bodies(batch) }

\* Lines of standard input, as sequences of characters.
InputLines ==
    { << >>, <<" ">>,
      <<"q", "u", "i", "t">>, <<" ", "B", "y", "e", " ">>, <<"E", "X", "I", "T">>,
      <<"h", "i">>, <<" ", "h", "i">>, <<"q", "u", "i", "t", "s">> }

SystemPrompts == { "", "You are a helpful assistant." }

-----------------------------------------------------------------------------
(* chatbot.py: chat_with_qwen, the pure parts *)

RECURSIVE lstrip(_)
lstrip(s) == IF s # << >> /\ Head(s) = " " THEN lstrip(Tail(s)) ELSE s

RECURSIVE rstrip(_)
rstrip(s) ==
    IF s # << >> /\ s[Len(s)] = " " THEN rstrip(SubSeq(s, 1, Len(s) - 1)) ELSE s

strip(s) == rstrip(lstrip(s))

lowerChar(c) ==
    CASE c = "Q" -> "q" [] c = "U" -> "u" [] c = "I" -> "i" [] c = "T" -> "t"
      [] c = "E" -> "e" [] c = "X" -> "x" [] c = "B" -> "b" [] c = "Y" -> "y"
      [] c = "H" -> "h" [] c = "S" -> "s" [] OTHER -> c

lower(s) == [i \in 1..Len(s) |-> lowerChar(s[i])]

ExitCommands == { <<"q", "u", "i", "t">>, <<"e", "x", "i", "t">>, <<"b", "y", "e">> }

\* Variant of Classify: the line is compared without lower().
Classify_NoLower(text) ==
    LET user_input == strip(text) IN
    IF user_input \in ExitCommands THEN "exit"
    ELSE IF user_input = << >> THEN "skip"
    ELSE "query"

\* What the loop body does with a line: "exit", "skip" or "query".
Classify(text) ==
    LET user_input == strip(text) IN
    IF lower(user_input) \in ExitCommands THEN "exit"
    ELSE IF user_input = << >> THEN "skip"
    ELSE "query"

-----------------------------------------------------------------------------
(* chatbot.py: process_query, the pure parts *)

max_iterations == 10

\* The history process_query starts from.
Seed(prompt, query) ==
    (IF prompt # "" THEN << Message("system", prompt, << >>) >> ELSE << >>)
    \o << Message("user", query, << >>) >>

\* The first request: the report of the handler that ends the query, or "ok".
InitialVerdict(o) ==
    CASE o.kind = "timeout"    -> "timeout"
      [] o.kind = "connection" -> "connection_error"
      [] o.status = 404        -> "unsupported_model"
      [] o.status >= 400       -> "http_error"
      [] o.body.parse = "invalid" -> "unexpected_error"
      [] OTHER -> "ok"

\* A follow-up request: one handler for every exception.
FollowupVerdict(o) ==
    CASE o.kind # "response"   -> "followup_error"
      [] o.status >= 400       -> "followup_error"
      [] o.body.parse = "invalid" -> "followup_error"
      [] OTHER -> "ok"

\* The condition of the while loop.
LoopCondition(flag, n) == flag /\ n < max_iterations

\* response_data.get('message', {})
GetMessage(data) == IF data.hasMessage THEN data.message ELSE NoMessage

\* Variant of DispatchOne: the result of a call is appended only when it is
\* no error record.
DispatchOne_DropErrors(tool_call) ==
    IF ~tool_call.hasName \/ ~tool_call.hasArgs
    THEN [append |-> << >>, log |-> {"malformed_tool_call"}, executed |-> FALSE, exc |-> ""]
    ELSE LET r == execute_tool(tool_call.name, tool_call.arguments) IN
         CASE r.kind = "return" ->
                [append |-> IF r.result.isError THEN << >>
                            ELSE << Message("tool", str(r.result), << >>) >>,
                 log |-> r.log, executed |-> TRUE, exc |-> ""]
           [] r.exc = "SystemExit" ->
                [append |-> << >>, log |-> r.log, executed |-> TRUE, exc |-> r.exc]
           [] OTHER ->
                [append |-> << >>, log |-> r.log \cup {"tool_error"},
                 executed |-> TRUE, exc |-> ""]

\* Variant of DispatchOne: only the name field is looked up before the call,
\* a record without arguments is executed with none.
DispatchOne_NameOnly(tool_call) ==
    IF ~tool_call.hasName
    THEN [append |-> << >>, log |-> {"malformed_tool_call"}, executed |-> FALSE, exc |-> ""]
    ELSE LET r == execute_tool(tool_call.name, tool_call.arguments) IN
         CASE r.kind = "return" ->
                [append |-> << Message("tool", str(r.result), << >>) >>,
                 log |-> r.log, executed |-> TRUE, exc |-> ""]
           [] r.exc = "SystemExit" ->
                [append |-> << >>, log |-> r.log, executed |-> TRUE, exc |-> r.exc]
           [] OTHER ->
                [append |-> << >>, log |-> r.log \cup {"tool_error"},
                 executed |-> TRUE, exc |-> ""]

\* The for loop's body on one record: what it appends, what it reports and
\* whether an exception leaves process_query.
\*   KeyError (a missing field) and any Exception of execute_tool: continue.
DispatchOne(tool_call) ==
    IF ~tool_call.hasName \/ ~tool_call.hasArgs
    THEN [append |-> << >>, log |-> {"malformed_tool_call"}, executed |-> FALSE, exc |-> ""]
    ELSE LET r == execute_tool(tool_call.name, tool_call.arguments) IN
         CASE r.kind = "return" ->
                [append |-> << Message("tool", str(r.result), << >>) >>,
                 log |-> r.log, executed |-> TRUE, exc |-> ""]
           [] r.exc = "SystemExit" ->
                [append |-> << >>, log |-> r.log, executed |-> TRUE, exc |-> r.exc]
           [] OTHER ->
                [append |-> << >>, log |-> r.log \cup {"tool_error"},
                 executed |-> TRUE, exc |-> ""]

\* Variant of AppendAll: the history is a window of the last three messages.
AppendAll_Window(history, more) ==
    LET h == history \o more IN
    IF Len(h) > 3 THEN SubSeq(h, Len(h) - 2, Len(h)) ELSE h

\* messages.append(...): the only way process_query changes its history.
AppendAll(history, more) == history \o more

\* Variant of ForNext: the loop is left after its first record.
ForNext_LeaveEarly(i, calls) == "followup"

\* Where the for loop goes after record i of the batch.
ForNext(i, calls) == IF i = Len(calls) THEN "followup" ELSE "for"

\* Variant of AfterFollowupError: continue instead of break.
AfterFollowupError_Continue == "while"

\* Where a failed follow-up request goes: break leaves the loop.
AfterFollowupError == "after_loop"

\* The test after the loop that decides the max-iterations warning.
WarnMaxIterations(n) == n >= max_iterations

\* How the loop was left: by the cleared flag (the branch without tool
\* calls), or with the flag still set (break, or the counter at its ceiling).
LoopExit(flag) == IF ~flag THEN "DONE" ELSE "ABORTED"

\* What is kept of an outcome once the request is over.
Summary(o) ==
    [kind |-> o.kind, status |-> o.status, parse |-> o.body.parse,
     hasMessage |-> o.body.hasMessage, hasCalls |-> o.body.message.tool_calls # << >>,
     hasContent |-> o.body.message.content # ""]

NoOutcome == [kind |-> "none", status |-> 0, parse |-> "invalid", hasMessage |-> FALSE,
              hasCalls |-> FALSE, hasContent |-> FALSE]

-----------------------------------------------------------------------------
(* The state machine *)

NoResponse == Body("invalid", FALSE, NoMessage)

\* What input() comes back with: a line of text, or EOFError raised; NoLine
\* when the driver is about to call input().
GotLine(text) == [kind |-> "line", text |-> text]
EOFError == [kind |-> "EOFError", text |-> << >>]
NoLine == [kind |-> "none", text |-> << >>]

\* No network tool is being called.
NoInput == [fn |-> "", arg |-> "", data |-> << >>]
NoResult == [kind |-> "none", text |-> "", exc |-> ""]

ToolsIdle ==
    /\ ALPHAVANTAGE_API_KEY = ""
    /\ tool_pc = "idle"
    /\ tool_input = NoInput
    /\ tool_result = NoResult
    /\ queried = {}

Init ==
    /\ ToolsIdle
    /\ pc = "input"
    /\ SYSTEM_PROMPT \in SystemPrompts
    /\ messages = << >>
    /\ response_data = NoResponse
    /\ process_query_flag = FALSE
    /\ iteration = 0
    /\ tool_calls = << >>
    /\ idx = 0
    /\ reports = {}
    /\ nreq = 0
    /\ nexec = 0
    /\ sent = << >>
    /\ queryState = "none"
    /\ lastOutcome = NoOutcome
    /\ plan = << >>
    /\ eof = FALSE
    /\ exitCause = ""
    /\ line = NoLine

locals == << messages, response_data, process_query_flag, iteration, tool_calls, idx >>
ghosts == << reports, nreq, nexec, sent, queryState, lastOutcome, plan >>

\* Variant of DropFrame: the loop counter is kept from one call of
\* process_query to the next.
DropFrame_KeepIteration ==
    /\ messages' = << >>
    /\ response_data' = NoResponse
    /\ process_query_flag' = FALSE
    /\ iteration' = iteration
    /\ tool_calls' = << >>
    /\ idx' = 0
    /\ sent' = << >>
    /\ plan' = << >>

\* The frame of process_query is gone: its locals no longer exist, and the
\* request and the model's batch of the query are over with it.
DropFrame ==
    /\ messages' = << >>
    /\ response_data' = NoResponse
    /\ process_query_flag' = FALSE
    /\ iteration' = 0
    /\ tool_calls' = << >>
    /\ idx' = 0
    /\ sent' = << >>
    /\ plan' = << >>

\* process_query returns (or an exception leaves it and the handler of the
\* driver's loop logs it): the driver is back at input().
BackToInput(state, log) ==
    /\ pc' = "input"
    /\ queryState' = state
    /\ reports' = reports \cup log
    /\ DropFrame

\* The session ends: the loop of chat_with_qwen is left, or the interpreter exits.
EndSession(cause) ==
    /\ pc' = "exited"
    /\ exitCause' = cause
    /\ DropFrame

\* chat_with_qwen: input() hands out a line.
ReadLine ==
    /\ pc = "input"
    /\ line = NoLine
    /\ ~eof
    /\ \E text \in InputLines : line' = GotLine(text)
    /\ UNCHANGED << pc, SYSTEM_PROMPT, locals, ghosts, eof, exitCause >>
    /\ UNCHANGED toolvars

\* chat_with_qwen: input() raises EOFError, now and at every later call.
ReadEOF ==
    /\ pc = "input"
    /\ line = NoLine
    /\ eof' = TRUE
    /\ line' = EOFError
    /\ UNCHANGED << pc, SYSTEM_PROMPT, locals, ghosts, exitCause >>
    /\ UNCHANGED toolvars

\* chat_with_qwen: the body of the loop on the line read, up to the call of
\* process_query, whose first lines seed the history.
HandleLine ==
    /\ pc = "input"
    /\ line.kind = "line"
    /\ LET kind == Classify(line.text) IN
        CASE kind = "exit" ->
                  /\ EndSession("quit")
                  /\ UNCHANGED << reports, nreq, nexec, queryState, lastOutcome >>
             [] kind = "skip" ->
                  UNCHANGED << pc, exitCause, locals, ghosts >>
             [] OTHER ->
                  /\ pc' = "post"
                  /\ messages' = Seed(SYSTEM_PROMPT, Join(strip(line.text)))
                  /\ reports' = {}
                  /\ nreq' = 0
                  /\ nexec' = 0
                  /\ queryState' = "running"
                  /\ lastOutcome' = NoOutcome
                  /\ UNCHANGED << response_data, process_query_flag, iteration,
                                  tool_calls, idx, sent, plan, exitCause >>
    /\ line' = NoLine
    /\ UNCHANGED << SYSTEM_PROMPT, eof >>
    /\ UNCHANGED toolvars

\* chat_with_qwen: the loop's "except Exception" catches the EOFError, logs
\* it, and the loop goes round to input() again.
ExceptException ==
    /\ pc = "input"
    /\ line = EOFError
    /\ reports' = reports \cup {"chat_loop_error"}
    /\ line' = NoLine
    /\ UNCHANGED << pc, SYSTEM_PROMPT, locals, nreq, nexec, sent, queryState,
                    lastOutcome, plan, eof, exitCause >>
    /\ UNCHANGED toolvars

\* KeyboardInterrupt, wherever the thread is: no "except Exception" catches
\* it, the driver's handler ends the session.
Interrupt ==
    /\ pc # "exited"
    /\ EndSession("interrupt")
    /\ line' = NoLine
    /\ UNCHANGED << SYSTEM_PROMPT, reports, nreq, nexec, queryState, lastOutcome,
                    eof >>
    /\ UNCHANGED toolvars

\* process_query: the first request and its handlers.
InitialRequest ==
    /\ pc = "post"
    /\ \E batch \in Batches : \E o \in Outcomes(batch) :
        LET verdict == InitialVerdict(o) IN
        /\ nreq' = nreq + 1
        /\ lastOutcome' = Summary(o)
        /\ IF verdict = "ok"
           THEN /\ sent' = messages
                /\ response_data' = o.body
                /\ process_query_flag' = TRUE
                /\ iteration' = 0
                /\ pc' = "while"
                /\ plan' = batch
                /\ UNCHANGED << messages, tool_calls, idx, reports, queryState >>
           ELSE BackToInput("ABORTED", {verdict})
    /\ UNCHANGED << SYSTEM_PROMPT, nexec, eof, exitCause, line >>
    /\ UNCHANGED toolvars

\* process_query: the loop test and the head of the body, up to the branch
\* on tool_calls.
While ==
    /\ pc = "while"
    /\ IF ~LoopCondition(process_query_flag, iteration)
       THEN /\ pc' = "after_loop"
            /\ UNCHANGED << locals, reports, queryState, sent, plan >>
       ELSE /\ iteration' = iteration + 1
            /\ IF response_data.parse # "dict"
               THEN \* AttributeError: not raised inside any try of process_query
                    BackToInput("RAISED", {"chat_loop_error"})
               ELSE LET message == GetMessage(response_data) IN
                    /\ reports' = reports \cup
                          (IF message.content # "" THEN {"llm_response"} ELSE {})
                    /\ IF message.tool_calls # << >>
                       THEN /\ messages' = AppendAll(messages, << message >>)
                            /\ tool_calls' = message.tool_calls
                            /\ idx' = 1
                            /\ pc' = "for"
                            /\ UNCHANGED process_query_flag
                       ELSE /\ process_query_flag' = FALSE
                            /\ pc' = "while"
                            /\ UNCHANGED << messages, tool_calls, idx >>
                    /\ UNCHANGED << response_data, queryState, sent, plan >>
    /\ UNCHANGED << SYSTEM_PROMPT, nreq, nexec, lastOutcome, eof, exitCause, line >>
    /\ UNCHANGED toolvars

\* process_query: one round of the for loop over the batch.
ForToolCall ==
    /\ pc = "for"
    /\ LET d == DispatchOne(tool_calls[idx]) IN
        /\ reports' = reports \cup d.log
        /\ nexec' = IF d.executed THEN nexec + 1 ELSE nexec
        /\ IF d.exc # ""
           THEN \* SystemExit passes every handler up to the interpreter
                EndSession("systemexit")
           ELSE /\ messages' = AppendAll(messages, d.append)
                /\ idx' = idx + 1
                /\ pc' = ForNext(idx, tool_calls)
                /\ UNCHANGED << response_data, process_query_flag, iteration,
                                tool_calls, sent, plan, exitCause >>
    /\ UNCHANGED << SYSTEM_PROMPT, nreq, queryState, lastOutcome, eof, line >>
    /\ UNCHANGED toolvars

\* process_query: the follow-up request after the batch and its handler.
FollowupRequest ==
    /\ pc = "followup"
    /\ \E o \in Outcomes(plan) :
        LET verdict == FollowupVerdict(o) IN
        /\ nreq' = nreq + 1
        /\ sent' = messages
        /\ lastOutcome' = Summary(o)
        /\ IF verdict = "ok"
           THEN /\ response_data' = o.body
                /\ pc' = "while"
                /\ UNCHANGED reports
           ELSE /\ reports' = reports \cup {verdict}
                /\ pc' = AfterFollowupError
                /\ UNCHANGED response_data
    /\ UNCHANGED << SYSTEM_PROMPT, messages, process_query_flag, iteration,
                    tool_calls, idx, nexec, queryState, plan, eof, exitCause, line >>
    /\ UNCHANGED toolvars

\* process_query: the test after the loop, then the return.
AfterLoop ==
    /\ pc = "after_loop"
    /\ BackToInput(LoopExit(process_query_flag),
                   IF WarnMaxIterations(iteration) THEN {"max_iterations"} ELSE {})
    /\ UNCHANGED << SYSTEM_PROMPT, nreq, nexec, lastOutcome, eof, exitCause, line >>
    /\ UNCHANGED toolvars

Next ==
    \/ ReadLine
    \/ ReadEOF
    \/ HandleLine
    \/ ExceptException
    \/ Interrupt
    \/ InitialRequest
    \/ While
    \/ ForToolCall
    \/ FollowupRequest
    \/ AfterLoop

Spec == Init /\ [][Next]_vars

\* The steps the thread takes by itself. input() blocks until a line or the
\* end of input is there, and the thread takes its next step whenever it has
\* one; a KeyboardInterrupt is the user's to give or not.
ThreadStep ==
    \/ ReadLine
    \/ ReadEOF
    \/ HandleLine
    \/ ExceptException
    \/ InitialRequest
    \/ While
    \/ ForToolCall
    \/ FollowupRequest
    \/ AfterLoop

FairSpec == Spec /\ WF_vars(ThreadStep)

-----------------------------------------------------------------------------
(* A call of search_stock_symbol, step by step *)

ChatIdle ==
    /\ pc = "input"
    /\ SYSTEM_PROMPT = ""
    /\ messages = << >>
    /\ response_data = NoResponse
    /\ process_query_flag = FALSE
    /\ iteration = 0
    /\ tool_calls = << >>
    /\ idx = 0
    /\ reports = {}
    /\ nreq = 0
    /\ nexec = 0
    /\ sent = << >>
    /\ queryState = "none"
    /\ lastOutcome = NoOutcome
    /\ plan = << >>
    /\ eof = FALSE
    /\ exitCause = ""
    /\ line = NoLine

\* search_stock_symbol is called, for every answer the primary provider may
\* give, with and without a key in the environment.
SearchInit ==
    /\ ChatIdle
    /\ ALPHAVANTAGE_API_KEY \in { "", "demo" }
    /\ tool_pc = "primary"
    /\ \E r \in ProviderOutcomes :
          tool_input = [fn |-> "search_stock_symbol", arg |-> "nvidia", data |-> r]
    /\ tool_result = NoResult
    /\ queried = {}

\* The primary stage: the request to Yahoo Finance and what is made of it.
SearchPrimary ==
    /\ tool_pc = "primary"
    /\ queried' = queried \cup {"Yahoo Finance"}
    /\ LET text == PrimaryStage(tool_input.arg, tool_input.data) IN
        IF text # ""
        THEN tool_pc' = "done" /\ tool_result' = Returned(text)
        ELSE tool_pc' = "fallback" /\ UNCHANGED tool_result
    /\ UNCHANGED << ALPHAVANTAGE_API_KEY, tool_input, chatvars >>

\* The fallback without a key: the explanatory text.
SearchNoKey ==
    /\ tool_pc = "fallback"
    /\ ~KeyConfigured(ALPHAVANTAGE_API_KEY)
    /\ tool_pc' = "done"
    /\ tool_result' = Returned(NoKeyText)
    /\ UNCHANGED << ALPHAVANTAGE_API_KEY, tool_input, queried, chatvars >>

\* The fallback with a key: the request to Alpha Vantage and what is made
\* of it.
SearchSecondary ==
    /\ tool_pc = "fallback"
    /\ KeyConfigured(ALPHAVANTAGE_API_KEY)
    /\ queried' = queried \cup {"Alpha Vantage"}
    /\ \E r \in ProviderOutcomes :
          tool_result' = SecondaryStage(tool_input.arg, r)
    /\ tool_pc' = "done"
    /\ UNCHANGED << ALPHAVANTAGE_API_KEY, tool_input, chatvars >>

SearchNext ==
    \/ SearchPrimary
    \/ SearchNoKey
    \/ SearchSecondary

SearchSpec == SearchInit /\ [][SearchNext]_vars

-----------------------------------------------------------------------------
(* A call of get_stock_price *)

\* get_stock_price is called, for every quote data the symbol may come with.
PriceInit ==
    /\ ChatIdle
    /\ ALPHAVANTAGE_API_KEY = ""
    /\ tool_pc = "price"
    /\ \E symbol \in { "NVDA", "AAPL" } : \E info \in Infos :
          tool_input = [fn |-> "get_stock_price", arg |-> symbol, data |-> info]
    /\ tool_result = NoResult
    /\ queried = {}

GetStockPrice ==
    /\ tool_pc = "price"
    /\ queried' = queried \cup {"Yahoo Finance"}
    /\ tool_result' = get_stock_price(tool_input.arg, tool_input.data)
    /\ tool_pc' = "done"
    /\ UNCHANGED << ALPHAVANTAGE_API_KEY, tool_input, chatvars >>

PriceNext == GetStockPrice

PriceSpec == PriceInit /\ [][PriceNext]_vars

-----------------------------------------------------------------------------
(* Vocabulary of the properties *)

IsMalformed(tool_call) == ~tool_call.hasName \/ ~tool_call.hasArgs

\* The tool messages a batch is due: one for every record that has both
\* fields and whose call of execute_tool returned, in the order of the batch.
RECURSIVE ResultsOf(_)
ResultsOf(calls) ==
    IF calls = << >> THEN << >>
    ELSE LET tc == Head(calls)
             r  == execute_tool(tc.name, tc.arguments)
         IN  (IF ~IsMalformed(tc) /\ r.kind = "return"
              THEN << Message("tool", str(r.result), << >>) >>
              ELSE << >>)
             \o ResultsOf(Tail(calls))

\* Position of the last assistant message of a history (0: none).
LastAssistant(history) ==
    LET S == { i \in 1..Len(history) : history[i].role = "assistant" }
    IN  IF S = {} THEN 0 ELSE CHOOSE i \in S : \A j \in S : j <= i

\* The messages of a history after position a.
After(history, a) == SubSeq(history, a + 1, Len(history))

ErrorReports ==
    { "timeout", "connection_error", "unsupported_model", "http_error",
      "unexpected_error", "followup_error" }

IsPrefix(s, t) == Len(s) <= Len(t) /\ SubSeq(t, 1, Len(s)) = s

TransportError(o) ==
    \/ o.kind \in {"timeout", "connection"}
    \/ o.kind = "response" /\ ~(o.status \in 200..299)

-----------------------------------------------------------------------------
(* C1 *)

\* C1: process_query posts at most 10 chat requests for one query, the
\* first request and every follow-up request counted.
C1_AtMostTenRequests == nreq <= 10

-----------------------------------------------------------------------------
(* C2 *)

-----------------------------------------------------------------------------
(* C3 *)

\* C3: execute_tool returns a result for every tool name (a text) and every
\* arguments value and never raises to its caller, and no failure of a tool
\* ends the loop or the process.
C3_ExecuteToolAlwaysReturns ==
    /\ exitCause # "systemexit"
    /\ pc = "for" /\ ~IsMalformed(tool_calls[idx]) /\ tool_calls[idx].name.hashable =>
          execute_tool(tool_calls[idx].name, tool_calls[idx].arguments).kind = "return"

-----------------------------------------------------------------------------
(* C4 *)

\* C4: whenever a chat request of a query (the first or a follow-up) is
\* answered with HTTP 404, the query is aborted with the unsupported-model
\* report and no tool is dispatched after that response.
C4_NotFoundIsUnsupportedModel ==
    lastOutcome.kind = "response" /\ lastOutcome.status = 404 =>
        /\ "unsupported_model" \in reports
        /\ pc \in {"after_loop", "input", "exited"}

-----------------------------------------------------------------------------
(* C5 *)

-----------------------------------------------------------------------------
(* C6 *)

BadStructure(o) ==
    o.kind = "response" /\ o.status = 200 /\ (o.parse # "dict" \/ ~o.hasMessage)

\* C6: a response with a success status whose body is not the expected
\* structure ends the query ABORTED with an error report: not DONE, and not
\* with a failure that leaves process_query unhandled.
C6_BadStructureAborts ==
    BadStructure(lastOutcome) /\ pc = "input" =>
        /\ queryState = "ABORTED"
        /\ reports \cap ErrorReports # {}

-----------------------------------------------------------------------------
(* C7 *)

\* C7: when the counter reaches the ceiling 10 with no reply without tool
\* calls seen, the loop exits with the max-iterations warning, and once the
\* counter is at the ceiling no chat request is posted and no tool executed.
C7_NothingAfterCeiling ==
    [][ /\ iteration >= max_iterations => nreq' = nreq /\ nexec' = nexec
        /\ iteration >= max_iterations /\ process_query_flag /\ pc = "after_loop"
           /\ pc' = "input" => "max_iterations" \in reports' ]_vars

-----------------------------------------------------------------------------
(* C8 *)

\* C8: within one round the assistant message with the tool calls is in the
\* history before any of its results, the records are handled one at a time
\* in the order of the batch, each result appended behind the results of the
\* records before it, and a follow-up request is posted only when no record
\* of the batch is pending.
C8_RoundIsSequential ==
    [][ /\ nexec' = nexec + 1 =>
              /\ pc = "for" /\ idx \in 1..Len(tool_calls)
              /\ LET a == LastAssistant(messages) IN
                 /\ a > 0
                 /\ messages[a].tool_calls = tool_calls
                 /\ After(messages, a) = ResultsOf(SubSeq(tool_calls, 1, idx - 1))
              /\ pc' # "exited" =>
                    /\ idx' = idx + 1
                    /\ messages' = messages \o ResultsOf(<< tool_calls[idx] >>)
        /\ nreq' = nreq + 1 /\ nreq >= 1 =>
              /\ pc = "followup" /\ idx = Len(tool_calls) + 1
              /\ After(messages, LastAssistant(messages)) = ResultsOf(tool_calls) ]_vars

\* C8 witness: in the middle of a batch of two, the first result is in the
\* history behind the assistant message and the second record is next.
C8_Witness ==
    /\ pc = "for"
    /\ idx = 2
    /\ tool_calls = << SumCall, DivideCall >>
    /\ After(messages, LastAssistant(messages)) =
          << Message("tool", "The result is: 4", << >>) >>
    /\ nexec = 1

-----------------------------------------------------------------------------
(* C9 *)

\* C9: a record without the name field or without the arguments field is
\* skipped with a report: nothing is executed or appended for it, the loop
\* goes on to the next record of the batch or, after the last, to the
\* follow-up request, and the query is not aborted.
C9_MalformedRecordIsSkipped ==
    [][ pc = "for" /\ IsMalformed(tool_calls[idx]) =>
          \/ exitCause' = "interrupt"
          \/ /\ "malformed_tool_call" \in reports'
             /\ messages' = messages
             /\ nexec' = nexec
             /\ tool_calls' = tool_calls
             /\ idx' = idx + 1
             /\ pc' = IF idx < Len(tool_calls) THEN "for" ELSE "followup"
             /\ process_query_flag' /\ queryState' = "running" ]_vars

\* C9 witness: a batch whose first record has no name and whose second is a
\* good call: the follow-up request went out with the one result.
C9_Witness ==
    /\ pc = "while"
    /\ nreq >= 2
    /\ tool_calls = << NamelessCall, WeatherCall >>
    /\ "malformed_tool_call" \in reports
    /\ After(sent, LastAssistant(sent)) =
          << Message("tool", "The weather in Paris is sunny and 72 F", << >>) >>

-----------------------------------------------------------------------------
(* C10 *)

ZeroToolReply(o) ==
    o.kind = "response" /\ o.status = 200 /\ o.parse = "dict" /\ o.hasMessage /\ ~o.hasCalls

\* C10: when a reply holds no tool call, process_query reaches DONE: its
\* content, if any, is reported, no tool is executed for it and no further
\* request is posted for the query.
C10_ZeroToolReplyIsDone ==
    ZeroToolReply(lastOutcome) =>
        /\ pc \notin {"for", "followup"}
        /\ pc = "input" =>
              /\ queryState = "DONE"
              /\ lastOutcome.hasContent => "llm_response" \in reports

-----------------------------------------------------------------------------
(* C11 *)

\* C11: while one query is processed the history is append-only: at every
\* step the history before is a prefix of the history after (nothing in it is
\* changed, removed or reordered), and the history a chat request carries
\* extends the history the previous request of the query carried.
C11_HistoryIsAppendOnly ==
    [][ queryState = "running" /\ queryState' = "running" /\ pc' # "exited" =>
          /\ IsPrefix(messages, messages')
          /\ IsPrefix(sent, sent')
          /\ IsPrefix(sent', messages') ]_vars

\* C11 witness: the second round of a query: the history the follow-up
\* request carried has since grown by an assistant message and a result.
C11_Witness ==
    /\ pc = "for"
    /\ idx = 2
    /\ nreq >= 2
    /\ Len(sent) >= 3
    /\ Len(messages) = Len(sent) + 2
    /\ IsPrefix(sent, messages)

-----------------------------------------------------------------------------
(* C12 *)

\* C12: the driver deals with each line by its trimmed text: quit, exit or
\* bye in any letter case ends the session and process_query is not called;
\* an empty line calls nothing and the driver reads the next line; every
\* other line calls process_query exactly once (a call begins only on such
\* a line), and no line is read while a call is in progress.
C12_DriverClassifiesLine ==
    [][ /\ pc = "input" /\ line.kind = "line" =>
              \/ exitCause' = "interrupt"
              \/ LET t == strip(line.text) IN
                 IF lower(t) \in ExitCommands
                 THEN /\ pc' = "exited" /\ exitCause' = "quit"
                      /\ queryState' = queryState /\ nreq' = nreq /\ nexec' = nexec
                 ELSE IF t = << >>
                 THEN /\ pc' = "input" /\ line' = NoLine /\ ~eof'
                      /\ queryState' = queryState /\ nreq' = nreq /\ nexec' = nexec
                      /\ messages' = << >> /\ reports' = reports
                 ELSE /\ pc' = "post" /\ line' = NoLine
                      /\ queryState' = "running" /\ nreq' = 0 /\ nexec' = 0
                      /\ messages' # << >>
        /\ queryState # "running" /\ queryState' = "running" =>
              /\ pc = "input" /\ line.kind = "line"
              /\ lower(strip(line.text)) \notin ExitCommands
              /\ strip(line.text) # << >>
        /\ line' # line /\ line' # NoLine =>
              pc = "input" /\ line = NoLine /\ queryState # "running" ]_vars

\* C12 witness: a query has been processed to its end and the next line read
\* is " Bye ", an exit word with blanks around it and a capital letter.
C12_Witness ==
    /\ pc = "input"
    /\ line = GotLine(<< " ", "B", "y", "e", " " >>)
    /\ queryState = "DONE"
    /\ nreq >= 2

-----------------------------------------------------------------------------
(* C13 *)

\* C13: nothing is carried from one user turn to the next: whatever was
\* processed before, a query starts with a history that holds only the
\* system prompt (when there is one) and the user message of its line, with
\* no local of an earlier call left, the prompt is never changed, and the
\* first request of the query carries exactly that history. The start of a
\* query is thus a function of the prompt and the line alone.
C13_QueryStartsFromLineAlone ==
    [][ /\ pc = "input" /\ pc' = "post" =>
              LET user == Message("user", Join(strip(line.text)), << >>) IN
              /\ messages' = IF SYSTEM_PROMPT = "" THEN << user >>
                             ELSE << Message("system", SYSTEM_PROMPT, << >>), user >>
              /\ response_data' = NoResponse
              /\ process_query_flag' = FALSE
              /\ iteration' = 0
              /\ tool_calls' = << >>
              /\ idx' = 0
        /\ pc = "post" =>
              /\ nreq = 0
              /\ Len(messages) = (IF SYSTEM_PROMPT = "" THEN 1 ELSE 2)
              /\ messages[Len(messages)].role = "user"
              /\ pc' = "while" => nreq' = 1 /\ sent' = messages /\ messages' = messages
        /\ SYSTEM_PROMPT' = SYSTEM_PROMPT ]_vars

\* C13 witness: the query before was aborted on a follow-up request after a
\* tool had run, and the line of the next query has been read.
C13_Witness ==
    /\ pc = "input"
    /\ line = GotLine(<< " ", "h", "i" >>)
    /\ queryState = "ABORTED"
    /\ nreq >= 2
    /\ nexec >= 1

-----------------------------------------------------------------------------
(* C14 *)

\* The primary provider succeeded with a usable match: a success status, a
\* JSON object, and a quote with a symbol among those the function formats
\* (the first five).
PrimaryUsable(r) ==
    /\ r.kind = "response" /\ r.status = 200 /\ r.json = "dict"
    /\ \E i \in 1..Len(r.items) : i <= 5 /\ r.items[i].symbol # ""

\* C14: search_stock_symbol follows the two-stage fallback: when the primary
\* provider succeeds with a usable match its result is returned and the
\* secondary is never queried; otherwise (error, rate limit, no usable match)
\* the secondary is queried only with a key configured, and without a key
\* the no-key text is returned; and whatever the providers answer the
\* function returns a text and does not raise.
C14_TwoStageFallback ==
    LET r == tool_input.data IN
    /\ tool_pc # "primary" => "Yahoo Finance" \in queried
    /\ "Alpha Vantage" \in queried =>
          ALPHAVANTAGE_API_KEY # "" /\ ~PrimaryUsable(r)
    /\ tool_pc # "primary" /\ PrimaryUsable(r) =>
          /\ tool_pc = "done"
          /\ tool_result =
                Returned(format_lines(tool_input.arg, QuoteLines(FirstFive(r.items)),
                                      "Yahoo Finance"))
    /\ tool_pc = "done" /\ ~PrimaryUsable(r) =>
          IF ALPHAVANTAGE_API_KEY = ""
          THEN tool_result = Returned(NoKeyText)
          ELSE "Alpha Vantage" \in queried
    /\ tool_result.kind # "raise"
    /\ tool_pc = "done" => tool_result.kind = "return" /\ tool_result.text # ""

\* C14 witness: the primary provider was rate-limited, a key is configured,
\* and the secondary provider's match is what the function returned.
C14_Witness ==
    /\ tool_pc = "done"
    /\ tool_input.data.status = 429
    /\ ALPHAVANTAGE_API_KEY # ""
    /\ queried = { "Yahoo Finance", "Alpha Vantage" }
    /\ tool_result =
          Returned("Top matches for 'nvidia' (Alpha Vantage):\n"
                   \o "NVDA - NVDA (Symbol: NVDA, Region: N/A, Currency: N/A)")

-----------------------------------------------------------------------------
(* C15 *)

\* The first of the three price fields that is present, None when none is.
FirstPresent(info) ==
    IF ~info.currentPrice.none THEN info.currentPrice
    ELSE IF ~info.regularMarketPrice.none THEN info.regularMarketPrice
    ELSE info.previousClose

\* C15: get_stock_price reports the price of the first field that is
\* present, in the order current price, regular-market price, previous
\* close, whatever the number in it (0 included), and returns the not-found
\* message only when none of the three fields is present.
C15_FirstPresentField ==
    tool_pc = "done" /\ ~tool_input.data.raises =>
        LET first == FirstPresent(tool_input.data) IN
        IF first.none
        THEN tool_result = Returned(NotFoundText(tool_input.arg))
        ELSE tool_result = Returned(PriceText(tool_input.arg, first.value))

-----------------------------------------------------------------------------
(* C16 *)

\* C16: the driver terminates when its input is exhausted: once input() has
\* failed with the end of input, the session eventually ends.
C16_DriverStopsAtEOF == eof ~> pc = "exited"

-----------------------------------------------------------------------------
(* C17 *)

\* C17: the max-iterations warning is reported only for a query that did
\* not reach DONE: a query whose loop ends on a reply without tool calls, in
\* whichever of the passes 1 to 10, reports no such warning.
C17_NoWarningWhenDone ==
    queryState = "DONE" => "max_iterations" \notin reports

====
